---------------------------- MODULE Spec2Model ----------------------------
(***************************************************************************)
(* Model of the NutriFit audio-report service.                             *)
(*                                                                         *)
(*   src/app.py   Flask variant: process() wires upload -> model call ->    *)
(*                extract_first_json -> validate_json_schema ->            *)
(*                create_pdf_from_json -> response.                        *)
(*   src/main.py  Streamlit variant: script run -> analyze_audio ->        *)
(*                create_pdf.                                              *)
(*                                                                         *)
(* Three specifications share the module:                                  *)
(*   SpecExtract  the pure function extract_first_json on bounded texts    *)
(*   SpecRender   the two PDF layout loops, one drawString per step        *)
(*   Spec         the request pipeline of both variants                    *)
(*                                                                         *)
(* A text is a sequence of atoms.  The structural atoms are the single     *)
(* characters  {  }  "  :  ,  space  and the digit 1.  Every other atom    *)
(* (a, null, transcript, ...) stands for the run of letters it spells: no  *)
(* operation of the code can succeed on a span that ends inside such a     *)
(* run (a candidate that ends in a letter is never a JSON document that    *)
(* starts with a brace), so a run is kept as one element.                  *)
(***************************************************************************)
EXTENDS Integers, Sequences, FiniteSets, TLC

VARIABLES
    \* ---- SpecExtract
    text,        \* argument of extract_first_json
    ex_pc,       \* "start" | "done"
    result,      \* [parsed, leftover] returned by extract_first_json
    \* ---- SpecRender
    fn,          \* which renderer runs
    text_content,\* create_pdf: its argument
    lines,       \* create_pdf: text_content.split("\n")
    idx,         \* number of loop iterations finished in the current loop
    sec,         \* create_pdf_from_json: the section being drawn (1..4)
    y,           \* cursor
    page,        \* showPage() calls so far (index of the page being drawn, from 0)
    drawn,       \* create_pdf: the drawString calls so far, <<page, y, line index>>
    phase,       \* create_pdf_from_json: position in the function body
    last,        \* last drawString: [kind, y]
    r_pc,        \* "run" | "saved"
    pages,       \* pages of the saved document
    \* ---- Spec
    variant,     \* "flask" | "streamlit"
    pc,          \* per request: position in process()
    upload,      \* per request: request.files.get("audio")
    raw,         \* per request: text returned by the model
    raised,      \* per request: the exception the model call raised ("" for none)
    calls,       \* per request: number of generate_content calls
    parsed_json, \* per request
    remainder,   \* per request
    warned,      \* per request: process() added the _validation_warning key
    suffix,      \* per request: uuid.uuid4().hex[:8]
    pdf_filename,\* per request
    rendered,    \* per request: "none" | "ok" | "threw"  (create_pdf_from_json)
    response,    \* per request: what process() returned
    files,       \* REPORTS_DIR: the files in it, each with the request that wrote it last
    writes,      \* every file write so far: [req, path]
    st           \* the Streamlit script run
-----------------------------------------------------------------------------
exVars == <<text, ex_pc, result>>
rnVars == <<fn, text_content, lines, idx, sec, y, page, drawn, phase, last, r_pc, pages>>
prVars == <<variant, pc, upload, raw, raised, calls, parsed_json, remainder, warned,
            suffix, pdf_filename, rendered, response, files, writes, st>>
vars == <<exVars, rnVars, prVars>>

\* Python's None
None == <<"None", 0>>

-----------------------------------------------------------------------------
(***************************************************************************)
(* Texts                                                                   *)
(***************************************************************************)
LB == "{"
RB == "}"
QT == "\""
CL == ":"
CM == ","
SP == " "
D1 == "1"

\* s[a..b] with Python's clipping (empty when a > b)
Slice(s, a, b) == IF a > b THEN <<>> ELSE SubSeq(s, a, b)

\* str.find: 1-based index of the first occurrence of atom c at or after i, 0 if none
RECURSIVE FindFrom(_, _, _)
FindFrom(s, c, i) ==
    IF i > Len(s) THEN 0
    ELSE IF s[i] = c THEN i
    ELSE FindFrom(s, c, i + 1)

Find(s, c) == FindFrom(s, c, 1)

\* str.strip(): drop leading and trailing whitespace
RECURSIVE LStrip(_)
LStrip(s) == IF s # <<>> /\ Head(s) = SP THEN LStrip(Tail(s)) ELSE s

RECURSIVE RStrip(_)
RStrip(s) ==
    IF s # <<>> /\ s[Len(s)] = SP THEN RStrip(SubSeq(s, 1, Len(s) - 1)) ELSE s

Strip(s) == RStrip(LStrip(s))

-----------------------------------------------------------------------------
(***************************************************************************)
(* json.loads (standard library, called at src/app.py:99 and :111) on the  *)
(* atoms above.  Values: <<"obj", pairs>>, <<"str", atoms>>, <<"num", n>>, *)
(* <<"null", 0>>.  A dict is the sequence of its <<key, value>> pairs in   *)
(* insertion order; a repeated key keeps its place and takes the new value.*)
(***************************************************************************)
Fail == [ok |-> FALSE, val |-> None, pos |-> 0]

RECURSIVE SkipWs(_, _)
SkipWs(s, i) == IF i <= Len(s) /\ s[i] = SP THEN SkipWs(s, i + 1) ELSE i

ParseString(s, i) ==
    LET j == FindFrom(s, QT, i + 1)
    IN  IF j = 0 THEN Fail
        ELSE [ok |-> TRUE, val |-> <<"str", Slice(s, i + 1, j - 1)>>, pos |-> j + 1]

RECURSIVE ParseNumber(_, _, _)
ParseNumber(s, i, n) ==
    IF i <= Len(s) /\ s[i] = D1 THEN ParseNumber(s, i + 1, 10 * n + 1)
    ELSE [ok |-> TRUE, val |-> <<"num", n>>, pos |-> i]

DictSet(d, k, v) ==
    IF \E n \in 1..Len(d) : d[n][1] = k
    THEN [n \in 1..Len(d) |-> IF d[n][1] = k THEN <<k, v>> ELSE d[n]]
    ELSE Append(d, <<k, v>>)

DictHas(d, k) == \E n \in 1..Len(d) : d[n][1] = k

DictGet(d, k, dflt) ==
    IF DictHas(d, k) THEN d[CHOOSE n \in 1..Len(d) : d[n][1] = k][2] ELSE dflt

RECURSIVE ParseValue(_, _)
RECURSIVE ParseMembers(_, _, _)

ParseObject(s, i) ==
    LET j == SkipWs(s, i + 1)
    IN  IF j > Len(s) THEN Fail
        ELSE IF s[j] = RB THEN [ok |-> TRUE, val |-> <<"obj", <<>>>>, pos |-> j + 1]
        ELSE ParseMembers(s, j, <<>>)

\* at j: the opening quote of the next key
ParseMembers(s, j, acc) ==
    IF j > Len(s) \/ s[j] # QT THEN Fail
    ELSE LET k == ParseString(s, j)
         IN  IF ~k.ok THEN Fail
             ELSE LET c == SkipWs(s, k.pos)
                  IN  IF c > Len(s) \/ s[c] # CL THEN Fail
                      ELSE LET v == ParseValue(s, SkipWs(s, c + 1))
                           IN  IF ~v.ok THEN Fail
                               ELSE LET e   == SkipWs(s, v.pos)
                                        nxt == DictSet(acc, k.val[2], v.val)
                                    IN  IF e > Len(s) THEN Fail
                                        ELSE IF s[e] = RB
                                        THEN [ok |-> TRUE, val |-> <<"obj", nxt>>,
                                              pos |-> e + 1]
                                        ELSE IF s[e] = CM
                                        THEN ParseMembers(s, SkipWs(s, e + 1), nxt)
                                        ELSE Fail

ParseValue(s, i) ==
    IF i > Len(s) THEN Fail
    ELSE IF s[i] = LB THEN ParseObject(s, i)
    ELSE IF s[i] = QT THEN ParseString(s, i)
    ELSE IF s[i] = D1 THEN ParseNumber(s, i, 0)
    ELSE IF s[i] = "null" THEN [ok |-> TRUE, val |-> <<"null", 0>>, pos |-> i + 1]
    ELSE Fail

\* json.loads(s): one value, whitespace allowed around it, nothing after it
Loads(s) ==
    LET v == ParseValue(s, SkipWs(s, 1))
    IN  IF v.ok /\ SkipWs(s, v.pos) = Len(s) + 1 THEN v ELSE Fail

-----------------------------------------------------------------------------
(***************************************************************************)
(* extract_first_json, src/app.py:83-115                                   *)
(***************************************************************************)

\* app.py:96-104  the first end in range(start + 1, len(text)) whose candidate
\* text[start:end + 1] parses; 0 when the loop runs out.  (1-based: end ranges
\* over start+1 .. Len(text).)
RECURSIVE FirstParse(_, _, _)
FirstParse(t, start, end) ==
    IF end > Len(t) THEN 0
    ELSE IF Loads(SubSeq(t, start, end)).ok THEN end
    ELSE FirstParse(t, start, end + 1)

\* app.py:107  re.search(r'(\{(?:[^{}]|\{[^{}]*\})*\})', text, re.DOTALL).
\* MatchAt walks the greedy repetition from an opening brace at depth 1: a
\* non-brace atom is an item; an opening brace starts the inner group, which
\* must close before another brace opens; the first closing brace at depth 1
\* ends the match.  Backtracking cannot help (a given-up item never starts
\* with a closing brace), so the walk is the match.  Returns the index of the
\* closing brace, 0 for no match at this start.
RECURSIVE MatchAt(_, _, _)
MatchAt(t, i, depth) ==
    IF i > Len(t) THEN 0
    ELSE IF t[i] = LB THEN (IF depth = 1 THEN MatchAt(t, i + 1, 2) ELSE 0)
    ELSE IF t[i] = RB THEN (IF depth = 2 THEN MatchAt(t, i + 1, 1) ELSE i)
    ELSE MatchAt(t, i + 1, depth)

\* leftmost start with a match: [s, e], s = 0 for no match
RECURSIVE ReSearch(_, _)
ReSearch(t, i) ==
    IF i > Len(t) THEN [s |-> 0, e |-> 0]
    ELSE IF t[i] = LB /\ MatchAt(t, i + 1, 1) # 0
    THEN [s |-> i, e |-> MatchAt(t, i + 1, 1)]
    ELSE ReSearch(t, i + 1)

\* position of the first occurrence of the non-empty sequence sub in t, 0 if none
RECURSIVE FindSub(_, _, _)
FindSub(t, sub, i) ==
    IF i + Len(sub) - 1 > Len(t) THEN 0
    ELSE IF SubSeq(t, i, i + Len(sub) - 1) = sub THEN i
    ELSE FindSub(t, sub, i + 1)

\* app.py:111  text.replace(raw, "", 1)
Replace1(t, sub) ==
    LET p == FindSub(t, sub, 1)
    IN  IF p = 0 THEN t
        ELSE Slice(t, 1, p - 1) \o Slice(t, p + Len(sub), Len(t))

\* app.py:93, 113, 115
NotFoundStripped(t) == [parsed |-> None, leftover |-> Strip(t)]

NotFound(t) == [parsed |-> None, leftover |-> t]

\* app.py:101  remainder = text[end + 1:].strip()
RemainderFromEnd(t, end) == Strip(Slice(t, end, Len(t)))

Remainder(t, end) == Strip(Slice(t, end + 1, Len(t)))

extract_first_json(t) ==
    LET start == Find(t, LB)
    IN  IF start = 0 THEN NotFound(t)
        ELSE LET end == FirstParse(t, start, start + 1)
             IN  IF end # 0
                 THEN [parsed   |-> Loads(SubSeq(t, start, end)).val,
                       leftover |-> Remainder(t, end)]
                 ELSE LET m == ReSearch(t, 1)
                      IN  IF m.s # 0
                          THEN LET rawm == SubSeq(t, m.s, m.e)
                               IN  IF Loads(rawm).ok
                                   THEN [parsed   |-> Loads(rawm).val,
                                         leftover |-> Strip(Replace1(t, rawm))]
                                   ELSE NotFound(t)
                          ELSE NotFound(t)

-----------------------------------------------------------------------------
(***************************************************************************)
(* SpecExtract: extract_first_json applied to every text of at most        *)
(* MaxFrags fragments.  A fragment is one atom or one whole JSON object,   *)
(* so that short texts already hold nested objects, braces inside strings, *)
(* concatenated objects and objects inside prose.                          *)
(***************************************************************************)
MaxFrags == 4

Fragments ==
    { <<LB>>, <<RB>>, <<QT>>, <<CL>>, <<CM>>, <<SP>>, <<D1>>, <<"a">>,
      <<LB, QT, "a", QT, CL, D1, RB>>,             \* {"a":1}
      <<LB, QT, "a", QT, CL, SP, LB, RB, RB>>,     \* {"a": {}}
      <<LB, QT, RB, LB, QT, CL, "null", RB>> }     \* {"}{":null}

RECURSIVE TextsOf(_)
TextsOf(n) ==
    IF n = 0 THEN { <<>> }
    ELSE LET shorter == TextsOf(n - 1)
         IN  shorter \cup { t \o f : t \in shorter, f \in Fragments }

Texts == TextsOf(MaxFrags)

InitOther(skip) ==
    /\ skip = "ex" \/ (text = <<>> /\ ex_pc = "off" /\ result = NotFound(<<>>))
    /\ skip = "rn" \/ ( /\ fn = "off" /\ text_content = <<>> /\ lines = <<>>
                        /\ idx = 0 /\ sec = 0 /\ y = 0
                        /\ page = 0 /\ drawn = <<>> /\ phase = "off"
                        /\ last = [kind |-> "none", y |-> 0]
                        /\ r_pc = "off" /\ pages = 0 )
    /\ skip = "pr" \/ ( /\ variant = "off" /\ pc = <<>> /\ upload = <<>>
                        /\ raw = <<>> /\ raised = <<>> /\ calls = <<>>
                        /\ parsed_json = <<>> /\ remainder = <<>> /\ warned = <<>>
                        /\ suffix = <<>> /\ pdf_filename = <<>>
                        /\ rendered = <<>> /\ response = <<>>
                        /\ files = {} /\ writes = {}
                        /\ st = [pc |-> "off"] )

InitExtract ==
    /\ text \in Texts
    /\ ex_pc = "start"
    /\ result = NotFound(<<>>)
    /\ InitOther("ex")

Extract ==
    /\ ex_pc = "start"
    /\ result' = extract_first_json(text)
    /\ ex_pc' = "done"
    /\ UNCHANGED <<text, rnVars, prVars>>

NextExtract == Extract

SpecExtract == InitExtract /\ [][NextExtract]_vars

-----------------------------------------------------------------------------
(***************************************************************************)
(* Properties of extract_first_json (SpecExtract)                          *)
(***************************************************************************)
NoAtom(s, c) == Find(s, c) = 0

\* s is the text of one JSON object: brace to brace, and it parses
IsObjectText(s) ==
    /\ Len(s) >= 2
    /\ s[1] = LB
    /\ s[Len(s)] = RB
    /\ Loads(s).ok

\* s is one or more object texts written one after the other (or empty)
RECURSIVE ConcatObjects(_)
ConcatObjects(s) ==
    \/ s = <<>>
    \/ \E i \in 2..Len(s) :
          /\ IsObjectText(SubSeq(s, 1, i))
          /\ ConcatObjects(Slice(s, i + 1, Len(s)))

\* text = pre \o obj \o post, obj an object text, no brace in pre or post
Embedded(t, a, b) ==
    /\ a < b
    /\ IsObjectText(SubSeq(t, a, b))
    /\ NoAtom(Slice(t, 1, a - 1), LB) /\ NoAtom(Slice(t, 1, a - 1), RB)
    /\ NoAtom(Slice(t, b + 1, Len(t)), LB) /\ NoAtom(Slice(t, b + 1, Len(t)), RB)

\* C1 (as claimed): for an object embedded in brace-free prose the function
\* returns exactly that object, and the leftover is the prose before the object
\* together with the prose after it, trimmed of outer whitespace.
C1_LeftoverIsSurroundingText ==
    ex_pc = "done" =>
        \A a, b \in 1..Len(text) :
            Embedded(text, a, b) =>
                /\ result.parsed = Loads(SubSeq(text, a, b)).val
                /\ result.leftover =
                      Strip(Slice(text, 1, a - 1) \o Slice(text, b + 1, Len(text)))

\* What the code does in C1's case: the object is returned, and the leftover is
\* only the prose after the object, trimmed; the prose before it is dropped.
C1_LeftoverIsTextAfter ==
    ex_pc = "done" =>
        \A a, b \in 1..Len(text) :
            Embedded(text, a, b) =>
                /\ result.parsed = Loads(SubSeq(text, a, b)).val
                /\ result.leftover = Strip(Slice(text, b + 1, Len(text)))

\* C2: a text with no opening brace (the empty text included) gives "not
\* found" (parsed is None) and a leftover identical to the input, untrimmed.
C2_NoBraceNotFound ==
    (ex_pc = "done" /\ NoAtom(text, LB)) =>
        /\ result.parsed = None
        /\ result.leftover = text

\* C2's case: a brace-free text with outer whitespace went through the function
C2_Witness ==
    /\ ex_pc = "done"
    /\ NoAtom(text, LB)
    /\ Len(text) = 3 /\ text[1] = SP /\ text[3] = SP /\ text[2] = RB
    /\ result.leftover = text

\* C3: for several object texts written one after the other, the function
\* returns the first one, which is the shortest prefix that parses, and the
\* leftover is everything after it.
C3_FirstObjectOnly ==
    ex_pc = "done" =>
        \A i \in 2..(Len(text) - 1) :
            ( /\ IsObjectText(SubSeq(text, 1, i))
              /\ ConcatObjects(SubSeq(text, i + 1, Len(text))) ) =>
                /\ result.parsed = Loads(SubSeq(text, 1, i)).val
                /\ result.leftover = SubSeq(text, i + 1, Len(text))
                /\ \A e \in 2..(i - 1) : ~Loads(SubSeq(text, 1, e)).ok

\* C3's case: two objects, the first with the atoms }{ inside its key
C3_Witness ==
    /\ ex_pc = "done"
    /\ text = <<LB, QT, RB, LB, QT, CL, "null", RB, LB, QT, "a", QT, CL, D1, RB>>
    /\ result.parsed = <<"obj", << <<  <<RB, LB>>, <<"null", 0>>  >> >> >>
    /\ result.leftover = <<LB, QT, "a", QT, CL, D1, RB>>

-----------------------------------------------------------------------------
(***************************************************************************)
(* The PDF layout loops.  reportlab's canvas is modelled by what the       *)
(* layout observes: the cursor y, the number of showPage() calls, and the  *)
(* drawString calls.                                                       *)
(***************************************************************************)
height == 792          \* letter = (612, 792) points
top_margin == 50       \* y = height - 50
line_height == 14      \* main.py line_height, app.py line_h
title_drop == 28       \* app.py: y -= 28 after the title
raw_threshold == 50    \* main.py: if y < 50
body_threshold == 60   \* app.py: if y < 60
head_threshold == 80   \* app.py: if y < 80

Top == height - top_margin

NL == "\n"

\* the positions of the newlines of s[lo..hi], ascending (halving keeps the
\* evaluation shallow on long texts)
RECURSIVE NewlinesIn(_, _, _)
NewlinesIn(s, lo, hi) ==
    IF lo > hi THEN <<>>
    ELSE IF lo = hi THEN (IF s[lo] = NL THEN <<lo>> ELSE <<>>)
    ELSE LET mid == (lo + hi) \div 2
         IN  NewlinesIn(s, lo, mid) \o NewlinesIn(s, mid + 1, hi)

\* str.split("\n"): the pieces between the newlines, always at least one
Split(s) ==
    LET P == NewlinesIn(s, 1, Len(s))
    IN  [k \in 1..(Len(P) + 1) |->
            Slice(s, IF k = 1 THEN 1 ELSE P[k - 1] + 1,
                     IF k = Len(P) + 1 THEN Len(s) ELSE P[k] - 1)]

\* the threshold test that precedes a drawString
CrossedLate(yy, thr) == yy < thr - line_height

Crossed(yy, thr) == yy < thr

\* y = height - 50 after showPage()
ResetForgotten(yy) == yy

Reset(yy) == Top

\* if y < thr: c.showPage(); y = height - 50   -- the cursor and page to draw at
BreakBefore(yy, pg, thr) ==
    IF Crossed(yy, thr) THEN [y |-> Reset(yy), page |-> pg + 1]
    ELSE [y |-> yy, page |-> pg]

\* ---- create_pdf, src/main.py:85-103 ----------------------------------------
\* one iteration of  for line in text_content.split("\n")
create_pdf_line ==
    /\ fn = "create_pdf" /\ r_pc = "run"
    /\ idx < Len(lines)
    /\ LET at == BreakBefore(y, page, raw_threshold)
       IN  /\ page' = at.page
           /\ drawn' = Append(drawn, <<at.page, at.y, idx + 1>>)
           /\ last' = [kind |-> "raw", y |-> at.y]
           /\ y' = at.y - line_height
    /\ idx' = idx + 1
    /\ UNCHANGED <<fn, text_content, lines, sec, phase, r_pc, pages, exVars, prVars>>

\* c.save(): the page being drawn is closed (every showPage() of the loop is
\* followed by a drawString, so it is never empty)
create_pdf_save ==
    /\ fn = "create_pdf" /\ r_pc = "run"
    /\ idx = Len(lines)
    /\ pages' = page + 1
    /\ r_pc' = "saved"
    /\ UNCHANGED <<fn, text_content, lines, idx, sec, y, page, drawn, phase, last,
                   exVars, prVars>>

\* ---- create_pdf_from_json, src/app.py:126-206 -------------------------------
\* The lists of the report are read one element at a time; how many elements a
\* list holds is the caller's choice, at most MaxItems.
MaxItems == 60

SectionTitles ==
    <<"Key Health Concerns", "Dietary Habits", "Suggested Improvements",
      "Personalized Nutrition">>

\* fewest lines of a section that is drawn: kh, dh, sug are drawn only when
\* non-empty; p_lines always holds the calorie and the macro line
MinLines(k) == IF k = 4 THEN 2 ELSE 1

\* app.py:138-140
DrawTitle ==
    /\ fn = "create_pdf_from_json" /\ phase = "title"
    /\ last' = [kind |-> "title", y |-> y]
    /\ y' = y - title_drop
    /\ phase' = "summary_head"
    /\ UNCHANGED <<fn, text_content, lines, idx, sec, page, drawn, r_pc, pages,
                   exVars, prVars>>

\* app.py:142-144
DrawSummaryHeading ==
    /\ fn = "create_pdf_from_json" /\ phase = "summary_head"
    /\ last' = [kind |-> "summary_head", y |-> y]
    /\ y' = y - line_height
    /\ phase' = "summary" /\ idx' = 0
    /\ UNCHANGED <<fn, text_content, lines, sec, page, drawn, r_pc, pages,
                   exVars, prVars>>

\* app.py:146-151  one line of the summary
SummaryLine ==
    /\ fn = "create_pdf_from_json" /\ phase = "summary"
    /\ idx < MaxItems
    /\ LET at == BreakBefore(y, page, body_threshold)
       IN  /\ page' = at.page
           /\ last' = [kind |-> "body", y |-> at.y]
           /\ y' = at.y - line_height
    /\ idx' = idx + 1
    /\ UNCHANGED <<fn, text_content, lines, sec, drawn, phase, r_pc, pages,
                   exVars, prVars>>

\* the summary loop ends
SummaryDone ==
    /\ fn = "create_pdf_from_json" /\ phase = "summary"
    /\ phase' = "between" /\ sec' = 1 /\ idx' = 0
    /\ UNCHANGED <<fn, text_content, lines, y, page, drawn, last, r_pc, pages,
                   exVars, prVars>>

\* app.py:176, 183, 188  if kh: / if dh: / if sug:  with an empty list
SkipSection ==
    /\ fn = "create_pdf_from_json" /\ phase = "between"
    /\ sec <= 3
    /\ sec' = sec + 1
    /\ UNCHANGED <<fn, text_content, lines, idx, y, page, drawn, phase, last, r_pc,
                   pages, exVars, prVars>>

\* app.py:156-161  draw_section: the title
SectionHeading ==
    /\ fn = "create_pdf_from_json" /\ phase = "between"
    /\ LET at == BreakBefore(y, page, head_threshold)
       IN  /\ page' = at.page
           /\ last' = [kind |-> "heading", y |-> at.y]
           /\ y' = at.y - line_height
    /\ phase' = "items" /\ idx' = 0
    /\ UNCHANGED <<fn, text_content, lines, sec, drawn, r_pc, pages, exVars, prVars>>

\* app.py:163-168  draw_section: one content line
SectionLine ==
    /\ fn = "create_pdf_from_json" /\ phase = "items"
    /\ idx < MaxItems
    /\ LET at == BreakBefore(y, page, body_threshold)
       IN  /\ page' = at.page
           /\ last' = [kind |-> "body", y |-> at.y]
           /\ y' = at.y - line_height
    /\ idx' = idx + 1
    /\ UNCHANGED <<fn, text_content, lines, sec, drawn, phase, r_pc, pages,
                   exVars, prVars>>

\* draw_section returns
SectionDone ==
    /\ fn = "create_pdf_from_json" /\ phase = "items"
    /\ idx >= MinLines(sec)
    /\ IF sec = 4 THEN phase' = "save" /\ sec' = sec
                  ELSE phase' = "between" /\ sec' = sec + 1
    /\ idx' = 0
    /\ UNCHANGED <<fn, text_content, lines, y, page, drawn, last, r_pc, pages,
                   exVars, prVars>>

\* app.py:205  c.save()
SaveReport ==
    /\ fn = "create_pdf_from_json" /\ phase = "save" /\ r_pc = "run"
    /\ pages' = page + 1
    /\ r_pc' = "saved"
    /\ UNCHANGED <<fn, text_content, lines, idx, sec, y, page, drawn, phase, last,
                   exVars, prVars>>

\* ---- SpecRender -------------------------------------------------------------
MaxNewlines == 104

\* n + 1 copies of the line fill, joined by newlines
Joined(n, fill) ==
    LET period == Len(fill) + 1
    IN  [i \in 1..((n + 1) * Len(fill) + n) |->
            IF i % period = 0 THEN NL ELSE fill[i % period]]

RenderTexts == { Joined(n, fill) : n \in 0..MaxNewlines, fill \in {<<>>, <<"x">>, <<"x", "x">>} }

InitRender ==
    /\ \/ /\ fn = "create_pdf"
          /\ text_content \in RenderTexts
          /\ lines = Split(text_content)
          /\ phase = "loop"
       \/ /\ fn = "create_pdf_from_json"
          /\ text_content = <<>>
          /\ lines = <<>>
          /\ phase = "title"
    /\ idx = 0 /\ sec = 0
    /\ y = Top
    /\ page = 0
    /\ drawn = <<>>
    /\ last = [kind |-> "none", y |-> 0]
    /\ r_pc = "run"
    /\ pages = 0
    /\ InitOther("rn")

NextRender ==
    \/ create_pdf_line
    \/ create_pdf_save
    \/ DrawTitle
    \/ DrawSummaryHeading
    \/ SummaryLine
    \/ SummaryDone
    \/ SkipSection
    \/ SectionHeading
    \/ SectionLine
    \/ SectionDone
    \/ SaveReport

SpecRender == InitRender /\ [][NextRender]_vars

-----------------------------------------------------------------------------
(***************************************************************************)
(* Properties of the layout loops (SpecRender)                             *)
(***************************************************************************)
\* K: the line positions from the top cursor down to the bottom threshold of
\* create_pdf, one every line_height
PageCapacity == Cardinality({ k \in 0..height : Top - k * line_height >= raw_threshold })

CeilDiv(n, k) == (n + k - 1) \div k

NewlineCount(s) == Cardinality({ i \in 1..Len(s) : s[i] = NL })

\* C4: a text of N lines (N = its newlines + 1) is saved by create_pdf as
\* ceil(N / K) pages; every line is drawn by exactly one drawString, on one
\* page, in order, and no page holds more than K lines.
C4_PagesCeilOfLines ==
    (fn = "create_pdf" /\ r_pc = "saved") =>
        LET N == NewlineCount(text_content) + 1
        IN  /\ Len(lines) = N
            /\ pages = CeilDiv(N, PageCapacity)
            /\ Len(drawn) = N
            /\ \A i \in 1..N :
                  /\ drawn[i][3] = i
                  /\ drawn[i][1] \in 0..(pages - 1)
                  /\ drawn[i][1] = (i - 1) \div PageCapacity
            /\ \A pg \in 0..(pages - 1) :
                  Cardinality({ i \in 1..N : drawn[i][1] = pg }) <= PageCapacity

\* C4's case: a text that fills two pages and starts a third
C4_Witness ==
    /\ fn = "create_pdf" /\ r_pc = "saved"
    /\ Len(lines) = 2 * PageCapacity + 1
    /\ lines[1] = <<"x">>
    /\ pages = 3
    /\ drawn[Len(lines)] = <<2, Top, Len(lines)>>

\* C10: every drawString happens with the cursor between the bottom threshold
\* and the top margin height - 50: never below 60 for body lines and never
\* below 80 for section headings in create_pdf_from_json, never below 50 in
\* create_pdf.
C10_CursorWithinPage ==
    last.kind # "none" =>
        /\ last.y <= Top
        /\ last.kind = "raw" => last.y >= raw_threshold
        /\ last.kind = "body" => last.y >= body_threshold
        /\ last.kind = "heading" => last.y >= head_threshold
        /\ last.kind \in {"title", "summary_head"} => last.y >= body_threshold
        /\ (fn = "create_pdf" /\ drawn # <<>>) =>
              /\ drawn[Len(drawn)][2] = last.y
              /\ \A i \in 1..Len(drawn) :
                    drawn[i][2] >= raw_threshold /\ drawn[i][2] <= Top

\* C10's case: a section heading that found the cursor below 80, so that a
\* page break put it at the top of a later page
C10_Witness ==
    /\ fn = "create_pdf_from_json"
    /\ last = [kind |-> "heading", y |-> Top]
    /\ page = 2
    /\ sec = 4

-----------------------------------------------------------------------------
(***************************************************************************)
(* The request pipeline.                                                   *)
(*   Flask (src/app.py): NumRequests requests run process() concurrently;  *)
(*   a request yields to the others at the model call and at the file      *)
(*   write.                                                                *)
(*   Streamlit (src/main.py): one run of the script.                       *)
(***************************************************************************)
NumRequests == 2
NumSuffixes == 2

Requests == 1..NumRequests

\* the values uuid.uuid4().hex[:8] can take, cut down to NumSuffixes of them
Suffixes == 1..NumSuffixes

Str(x) == <<"str", <<x>>>>

\* request.files.get("audio"): no such field, a field with an empty filename,
\* or a file
NoFile    == [present |-> FALSE, filename |-> ""]
EmptyName == [present |-> TRUE, filename |-> ""]
SomeFile  == [present |-> TRUE, filename |-> "call.wav"]
Unset     == [present |-> FALSE, filename |-> "?"]

Uploads == {NoFile, EmptyName, SomeFile}

\* bool(f): None is falsy, and a FileStorage is truthy exactly when its
\* filename is non-empty
Truthy(f) == f.present /\ f.filename # ""

\* the exceptions generate_content can raise
ModelErrors == {"503 deadline exceeded", "429 quota exhausted"}

\* ---- what the model can answer -----------------------------------------------
Member(k, v) == <<QT, k, QT, CL>> \o v

Obj3(a, b, c) == <<LB>> \o a \o <<CM>> \o b \o <<CM>> \o c \o <<RB>>

StrA == <<QT, "a", QT>>

ObjFull ==
    Obj3(Member("transcript", StrA), Member("summary", StrA),
         Member("personalized_nutrition", <<LB, RB>>))

ObjNulls ==
    Obj3(Member("transcript", <<"null">>), Member("summary", <<"null">>),
         Member("personalized_nutrition", <<"null">>))

ObjNoSummary ==
    <<LB>> \o Member("transcript", StrA) \o <<CM>>
           \o Member("personalized_nutrition", <<LB, RB>>) \o <<RB>>

\* JSON first and the report after it; JSON alone (all values null); a required
\* key missing; an object inside prose; no JSON at all; a stray brace before
\* the JSON (only the fallback pattern finds the object)
ModelOutputs ==
    { ObjFull \o <<SP, "report">>,
      ObjNulls,
      ObjNoSummary,
      <<"Here", SP, LB, RB, SP, "done">>,
      <<"report">>,
      <<LB, SP>> \o ObjFull }

\* ---- validate_json_schema, src/app.py:118-123 ------------------------------
required == << <<"transcript">>, <<"summary">>, <<"personalized_nutrition">> >>

validate_any(j) == \E n \in 1..Len(required) : DictHas(j[2], required[n])

validate_json_schema(j) == \A n \in 1..Len(required) : DictHas(j[2], required[n])

WarningKey == <<"_validation_warning">>

\* app.py:241
WithWarning(j) ==
    <<"obj", DictSet(j[2], WarningKey, Str("Missing required top-level keys"))>>

\* ---- create_pdf_from_json as process() sees it -----------------------------
\* Python truthiness of a parsed value
Falsy(v) ==
    \/ v[1] = "null"
    \/ v[1] = "str" /\ v[2] = <<>>
    \/ v[1] = "obj" /\ v[2] = <<>>

\* the statements of create_pdf_from_json that raise on a parsed value of the
\* wrong type (the values here are objects, strings, numbers and null)
RenderThrows(j) ==
    LET d     == j[2]
        Has(k) == DictHas(d, <<k>>)
        V(k)   == DictGet(d, <<k>>, None)
        \* for item in j.get(k, []): item.get(...)
        ItemsThrow(k) == Has(k) /\ ~(V(k)[1] \in {"str", "obj"} /\ V(k)[2] = <<>>)
        pn    == V("personalized_nutrition")
        PHas(k) == DictHas(pn[2], <<k>>)
        PV(k)   == DictGet(pn[2], <<k>>, None)
    IN  \* app.py:146  (j.get("summary") or "").splitlines()
        \/ Has("summary") /\ ~Falsy(V("summary")) /\ V("summary")[1] # "str"
        \* app.py:172-175, 181-182
        \/ ItemsThrow("key_health_concerns")
        \/ ItemsThrow("dietary_habits")
        \* app.py:187-189, 163-167  for line in sug: "- " + line
        \/ Has("suggested_improvements") /\ V("suggested_improvements")[1] = "num"
        \* app.py:192-194  pn.get(...)
        \/ Has("personalized_nutrition") /\ pn[1] # "obj"
        \* app.py:195-196  ms = pn.get("macro_split") or {}; ms.get(...)
        \/ /\ Has("personalized_nutrition") /\ pn[1] = "obj"
           /\ \/ PHas("macro_split") /\ ~Falsy(PV("macro_split"))
                    /\ PV("macro_split")[1] # "obj"
              \* app.py:199  for meal in pn.get("sample_meal_plan", [])
              \/ PHas("sample_meal_plan") /\ PV("sample_meal_plan")[1] \in {"null", "num"}
              \* app.py:201-202  ", ".join(pn.get("supplements"))
              \/ PHas("supplements") /\ PV("supplements")[1] = "num"

REPORTS_DIR == "static/reports"

\* app.py:244  f"NutriFit_Report_{uuid.uuid4().hex[:8]}.pdf"
FixedFileName(u) == <<"NutriFit_Report_", 0, ".pdf">>

FileName(u) == <<"NutriFit_Report_", u, ".pdf">>

\* app.py:130  os.path.join(REPORTS_DIR, filename)
PathOf(filename) == <<REPORTS_DIR>> \o filename

NoResponse ==
    [status |-> 0, error |-> None, details |-> None, raw |-> None, json |-> None,
     report_text |-> None, pdf_url |-> None]

\* app.py:253  remainder.strip() or raw
ReportText(rem, rw) == IF Strip(rem) # <<>> THEN Strip(rem) ELSE rw

\* ---- process(), src/app.py:214-255 -------------------------------------------
flaskOnly == <<variant, st>>

\* app.py:219-224 with the upload check left out
ReceiveUnchecked(r, f) ==
    /\ variant = "flask" /\ pc[r] = "idle"
    /\ upload' = [upload EXCEPT ![r] = f]
    /\ pc' = [pc EXCEPT ![r] = "calling"]
    /\ UNCHANGED <<raw, raised, calls, parsed_json, remainder, warned, suffix,
                   pdf_filename, rendered, response, files, writes, flaskOnly,
                   exVars, rnVars>>

\* app.py:219-224  the request arrives; without a file it is answered 400
Receive(r, f) ==
    /\ variant = "flask" /\ pc[r] = "idle"
    /\ upload' = [upload EXCEPT ![r] = f]
    /\ IF ~Truthy(f)
       THEN /\ response' = [response EXCEPT ![r] =
                  [NoResponse EXCEPT !.status = 400,
                                     !.error = Str("No audio file received")]]
            /\ pc' = [pc EXCEPT ![r] = "done"]
       ELSE /\ pc' = [pc EXCEPT ![r] = "calling"]
            /\ UNCHANGED response
    /\ UNCHANGED <<raw, raised, calls, parsed_json, remainder, warned, suffix,
                   pdf_filename, rendered, files, writes, flaskOnly, exVars, rnVars>>

\* app.py:228, 70-80  the model answers
ModelReturns(r, out) ==
    /\ variant = "flask" /\ pc[r] = "calling"
    /\ calls' = [calls EXCEPT ![r] = @ + 1]
    /\ raw' = [raw EXCEPT ![r] = out]
    /\ pc' = [pc EXCEPT ![r] = "got_raw"]
    /\ UNCHANGED <<upload, raised, parsed_json, remainder, warned, suffix,
                   pdf_filename, rendered, response, files, writes, flaskOnly,
                   exVars, rnVars>>

\* app.py:227-230 with the call tried again after an exception
ModelRaisesRetry(r, e) ==
    /\ variant = "flask" /\ pc[r] = "calling"
    /\ calls[r] < 2
    /\ calls' = [calls EXCEPT ![r] = @ + 1]
    /\ raised' = [raised EXCEPT ![r] = e]
    /\ UNCHANGED <<pc, upload, raw, parsed_json, remainder, warned, suffix,
                   pdf_filename, rendered, response, files, writes, flaskOnly,
                   exVars, rnVars>>

\* app.py:227-230  the model call raises: 500 with str(e)
ModelRaises(r, e) ==
    /\ variant = "flask" /\ pc[r] = "calling"
    /\ calls' = [calls EXCEPT ![r] = @ + 1]
    /\ raised' = [raised EXCEPT ![r] = e]
    /\ response' = [response EXCEPT ![r] =
           [NoResponse EXCEPT !.status = 500,
                              !.error = Str("Model call failed"),
                              !.details = Str(e)]]
    /\ pc' = [pc EXCEPT ![r] = "done"]
    /\ UNCHANGED <<upload, raw, parsed_json, remainder, warned, suffix,
                   pdf_filename, rendered, files, writes, flaskOnly, exVars, rnVars>>

\* app.py:233-244  extraction, validation, and the file name
ExtractValidate(r) ==
    /\ variant = "flask" /\ pc[r] = "got_raw"
    /\ \E ex \in {extract_first_json(raw[r])} :
           IF ex.parsed = None
           THEN /\ response' = [response EXCEPT ![r] =
                      [NoResponse EXCEPT
                          !.status = 500,
                          !.error = Str("Could not extract JSON from model output"),
                          !.raw = <<"str", raw[r]>>]]
                /\ pc' = [pc EXCEPT ![r] = "done"]
                /\ UNCHANGED <<parsed_json, remainder, warned, suffix, pdf_filename>>
           ELSE /\ warned' = [warned EXCEPT ![r] = ~validate_json_schema(ex.parsed)]
                /\ parsed_json' = [parsed_json EXCEPT ![r] =
                      IF validate_json_schema(ex.parsed) THEN ex.parsed
                      ELSE WithWarning(ex.parsed)]
                /\ remainder' = [remainder EXCEPT ![r] = ex.leftover]
                /\ \E u \in Suffixes :
                      /\ suffix' = [suffix EXCEPT ![r] = u]
                      /\ pdf_filename' = [pdf_filename EXCEPT ![r] = FileName(u)]
                /\ pc' = [pc EXCEPT ![r] = "render"]
                /\ UNCHANGED response
    /\ UNCHANGED <<upload, raw, raised, calls, rendered, files, writes, flaskOnly,
                   exVars, rnVars>>

\* the 200 response of app.py:251-255
Ok200(r, url) ==
    [NoResponse EXCEPT !.status = 200,
                       !.json = parsed_json[r],
                       !.report_text = <<"str", ReportText(remainder[r], raw[r])>>,
                       !.pdf_url = url]

\* app.py:245-255 with a failed rendering answered as an error
RenderFatal(r, io_ok) ==
    /\ variant = "flask" /\ pc[r] = "render"
    /\ IF RenderThrows(parsed_json[r]) \/ ~io_ok
       THEN /\ rendered' = [rendered EXCEPT ![r] = "threw"]
            /\ response' = [response EXCEPT ![r] =
                  [NoResponse EXCEPT !.status = 500,
                                     !.error = Str("PDF generation failed")]]
            /\ UNCHANGED <<files, writes>>
       ELSE /\ rendered' = [rendered EXCEPT ![r] = "ok"]
            /\ files' = { f \in files : f.path # PathOf(pdf_filename[r]) }
                           \cup { [path |-> PathOf(pdf_filename[r]), by |-> r] }
            /\ writes' = writes \cup { [req |-> r, path |-> PathOf(pdf_filename[r])] }
            /\ response' = [response EXCEPT ![r] =
                  Ok200(r, <<"str", <<"/static/reports/">> \o pdf_filename[r]>>)]
    /\ pc' = [pc EXCEPT ![r] = "done"]
    /\ UNCHANGED <<upload, raw, raised, calls, parsed_json, remainder, warned, suffix,
                   pdf_filename, flaskOnly, exVars, rnVars>>

\* app.py:245-255  create_pdf_from_json writes the file at c.save() (creating
\* it or replacing the one already there), or raises, which is caught:
\* pdf_url is None.  Then the 200 response.  io_ok: the file system took the
\* write.
Render(r, io_ok) ==
    /\ variant = "flask" /\ pc[r] = "render"
    /\ IF RenderThrows(parsed_json[r]) \/ ~io_ok
       THEN /\ rendered' = [rendered EXCEPT ![r] = "threw"]
            /\ response' = [response EXCEPT ![r] = Ok200(r, None)]
            /\ UNCHANGED <<files, writes>>
       ELSE /\ rendered' = [rendered EXCEPT ![r] = "ok"]
            /\ files' = { f \in files : f.path # PathOf(pdf_filename[r]) }
                           \cup { [path |-> PathOf(pdf_filename[r]), by |-> r] }
            /\ writes' = writes \cup { [req |-> r, path |-> PathOf(pdf_filename[r])] }
            /\ response' = [response EXCEPT ![r] =
                  Ok200(r, <<"str", <<"/static/reports/">> \o pdf_filename[r]>>)]
    /\ pc' = [pc EXCEPT ![r] = "done"]
    /\ UNCHANGED <<upload, raw, raised, calls, parsed_json, remainder, warned, suffix,
                   pdf_filename, flaskOnly, exVars, rnVars>>

\* ---- the Streamlit script, src/main.py:106-129 --------------------------------
flaskVars == <<pc, upload, raw, raised, calls, parsed_json, remainder, warned,
               suffix, pdf_filename, rendered, response, files, writes>>

StInit ==
    [pc |-> "start", uploaded |-> Unset, calls |-> 0, raised |-> "",
     result |-> None, shown |-> <<>>, pdf |-> None, file_name |-> ""]

\* main.py:107-112  the page is drawn; without an upload the run ends there
StRun(f) ==
    /\ variant = "streamlit" /\ st.pc = "start"
    /\ st' = [st EXCEPT !.uploaded = f,
                        !.shown = <<"title", "write", "file_uploader">>,
                        !.pc = IF f.present THEN "analyzing" ELSE "done"]
    /\ UNCHANGED <<variant, flaskVars, exVars, rnVars>>

\* main.py:114, 69-82, 116-117  analyze_audio returns response.text.strip()
StAnalyzeReturns(out) ==
    /\ variant = "streamlit" /\ st.pc = "analyzing"
    /\ st' = [st EXCEPT !.calls = @ + 1,
                        !.result = <<"str", Strip(out)>>,
                        !.shown = @ \o <<"success", "result">>,
                        !.pc = "pdf"]
    /\ UNCHANGED <<variant, flaskVars, exVars, rnVars>>

\* main.py:72  generate_content raises; nothing catches it, the run stops and
\* Streamlit shows the exception
StAnalyzeRaises(e) ==
    /\ variant = "streamlit" /\ st.pc = "analyzing"
    /\ st' = [st EXCEPT !.calls = @ + 1,
                        !.raised = e,
                        !.shown = @ \o <<"exception">>,
                        !.pc = "stopped"]
    /\ UNCHANGED <<variant, flaskVars, exVars, rnVars>>

\* main.py:121-129  create_pdf(result) and the download button
StCreatePdf ==
    /\ variant = "streamlit" /\ st.pc = "pdf"
    /\ st' = [st EXCEPT !.pdf = <<"buffer", Split(st.result[2])>>,
                        !.file_name = "NutriFit_AI_Report.pdf",
                        !.shown = @ \o <<"download_button">>,
                        !.pc = "done"]
    /\ UNCHANGED <<variant, flaskVars, exVars, rnVars>>

\* ---- Spec ---------------------------------------------------------------------
Init ==
    /\ variant \in {"flask", "streamlit"}
    /\ pc = [r \in Requests |-> "idle"]
    /\ upload = [r \in Requests |-> Unset]
    /\ raw = [r \in Requests |-> <<>>]
    /\ raised = [r \in Requests |-> ""]
    /\ calls = [r \in Requests |-> 0]
    /\ parsed_json = [r \in Requests |-> None]
    /\ remainder = [r \in Requests |-> <<>>]
    /\ warned = [r \in Requests |-> FALSE]
    /\ suffix = [r \in Requests |-> 0]
    /\ pdf_filename = [r \in Requests |-> <<>>]
    /\ rendered = [r \in Requests |-> "none"]
    /\ response = [r \in Requests |-> NoResponse]
    /\ files = {}
    /\ writes = {}
    /\ st = StInit
    /\ InitOther("pr")

Next ==
    \/ \E r \in Requests, f \in Uploads : Receive(r, f)
    \/ \E r \in Requests, out \in ModelOutputs : ModelReturns(r, out)
    \/ \E r \in Requests, e \in ModelErrors : ModelRaises(r, e)
    \/ \E r \in Requests : ExtractValidate(r)
    \/ \E r \in Requests, io_ok \in BOOLEAN : Render(r, io_ok)
    \/ \E f \in {NoFile, SomeFile} : StRun(f)
    \/ \E out \in ModelOutputs : StAnalyzeReturns(out)
    \/ \E e \in ModelErrors : StAnalyzeRaises(e)
    \/ StCreatePdf

Spec == Init /\ [][Next]_vars

-----------------------------------------------------------------------------
(***************************************************************************)
(* Properties of the request pipeline (Spec)                               *)
(***************************************************************************)
WroteFile(r) == \E w \in writes : w.req = r

RequiredKeys == { <<"transcript">>, <<"summary">>, <<"personalized_nutrition">> }

SomeRequiredKeyAbsent(j) == \E k \in RequiredKeys : ~DictHas(j[2], k)

C6_ModelErrorIsFinal ==
    /\ \A r \in Requests :
          raised[r] # "" =>
              /\ pc[r] = "done"
              /\ response[r].status = 500
              /\ response[r].details = Str(raised[r])
              /\ calls[r] = 1
              /\ parsed_json[r] = None
              /\ rendered[r] = "none" /\ ~WroteFile(r)
              /\ \A f \in files : f.by # r
    /\ (variant = "streamlit" /\ st.raised # "") =>
          /\ st.pc = "stopped"
          /\ st.calls = 1
          /\ st.pdf = None

\* C6's case: one request's model call raised while another request went on to
\* write its PDF
C6_Witness ==
    /\ variant = "flask"
    /\ \E r, q \in Requests :
          /\ raised[r] = "429 quota exhausted" /\ pc[r] = "done"
          /\ response[r].status = 500
          /\ rendered[q] = "ok" /\ WroteFile(q)

\* C7: if rendering raises for a request whose model call and extraction
\* succeeded, the request still ends with a 200 response that carries the parsed
\* object and the report text, with pdf_url None.
C7_RenderFailureNotFatal ==
    \A r \in Requests :
        (pc[r] = "done" /\ rendered[r] = "threw") =>
            /\ parsed_json[r] # None
            /\ response[r].status = 200
            /\ response[r].error = None
            /\ response[r].json = parsed_json[r]
            /\ response[r].report_text =
                  <<"str", IF Strip(remainder[r]) = <<>> THEN raw[r]
                           ELSE Strip(remainder[r])>>
            /\ response[r].pdf_url = None
            /\ ~WroteFile(r)

\* C7's case: the report's personalized_nutrition is null, create_pdf_from_json
\* raised on it, and the request was answered
C7_Witness ==
    \E r \in Requests :
        /\ raw[r] = ObjNulls
        /\ pc[r] = "done" /\ rendered[r] = "threw"
        /\ response[r].status = 200 /\ response[r].pdf_url = None

\* C8: validation is advisory.  The warning key is added to the extracted
\* object exactly when one of transcript, summary, personalized_nutrition is
\* absent (a key with a null value is present); either way the request goes on
\* to rendering and ends with a 200 response that carries the object.
C8_ValidationAdvisory ==
    \A r \in Requests :
        parsed_json[r] # None =>
            /\ warned[r] <=> SomeRequiredKeyAbsent(parsed_json[r])
            /\ DictHas(parsed_json[r][2], WarningKey) <=> warned[r]
            /\ pc[r] \in {"render", "done"}
            /\ pc[r] = "done" =>
                  /\ rendered[r] \in {"ok", "threw"}
                  /\ response[r].status = 200
                  /\ response[r].json = parsed_json[r]

\* C8's case: an object without a summary key was flagged, rendered and
\* returned, while an object whose three keys are null was not flagged
C8_Witness ==
    \E r, q \in Requests :
        /\ raw[r] = ObjNoSummary /\ warned[r] /\ pc[r] = "done"
        /\ rendered[r] = "ok" /\ response[r].status = 200
        /\ DictHas(response[r].json[2], WarningKey)
        /\ raw[q] = ObjNulls /\ pc[q] = "done" /\ ~warned[q]

\* C9 (as claimed): two requests that both reach rendering never write to the
\* same path of the reports directory.
C9_NeverSamePath ==
    \A w1, w2 \in writes : w1.req # w2.req => w1.path # w2.path

\* C9 (amended): two requests write to the same path only when they drew the
\* same 8-digit suffix; a later write to a path replaces the file that was there
\* (the directory holds one file per path, the last writer's).
C9_SamePathOnlyOnEqualSuffix ==
    /\ \A w1, w2 \in writes :
          (w1.req # w2.req /\ w1.path = w2.path) => suffix[w1.req] = suffix[w2.req]
    /\ \A w \in writes :
          /\ w.path = <<REPORTS_DIR, "NutriFit_Report_", suffix[w.req], ".pdf">>
          /\ \E f \in files : f.path = w.path
    /\ \A f, g \in files : f.path = g.path => f = g

\* C9's case: two requests drew different suffixes and each wrote its own file
C9_Witness ==
    \E r, q \in Requests :
        /\ r # q /\ suffix[r] # suffix[q]
        /\ rendered[r] = "ok" /\ rendered[q] = "ok"
        /\ \E f, g \in files : f.by = r /\ g.by = q /\ f.path # g.path

=============================================================================
